---- MODULE Spec2Model ----
\* Real-time notification layer of the restaurant ordering application:
\*   server side  - the WebSocket registry and dispatcher (server/socket.ts,
\*                  kept as src/unnamed/part_012) and the storage call it awaits
\*                  (DatabaseStorage.updateOrder, src/unnamed/part_014);
\*   client side  - the browser transport with its reconnect logic
\*                  (src/client/src/lib/socket.ts).
\* The two halves share no state; SpecServer and SpecClient run them separately.
EXTENDS Integers, Sequences, FiniteSets

\* ---------------------------------------------------------------- bounds
\* Server-side connections that can be in the registry at the same time.
MaxClients == 2
\* update-order-status handlers that can be suspended on their await at once.
MaxPending == 1
\* WebSocket objects of the page that have not yet delivered their close event
\* or are still referred to, at the same time.
MaxSocketObjects == 2
\* Timer handles of the page.
MaxTimers == 2

\* Callback registrations of the page at the same time, all event types
\* together.
MaxListeners == 3
MaxInFlight == 2
MaxOrders == 1

\* ---------------------------------------------------------------- values
\* JavaScript's undefined: an optional field that was never set, or a key that
\* is absent from a parsed JSON payload (JSON.stringify drops such keys again).
Undefined == "undefined"

RestaurantIds == {"7", "8"}
TableIds == {"3", "5"}
\* The ids the orders table gives to the rows created, in this order; the
\* table holds up to MaxOrders rows, so that order 43 is not a row.
OrderSerial == <<"42", "43">>
OrderIds == {"42", "43"}
Statuses == {"confirmed", "served"}
\* The identities the page connects with.
ClientRestaurantIds == {Undefined, "7"}
ClientTableIds == {Undefined, "3"}

\* The event types the page's components subscribe to, and their callbacks.
EventTypes == {"order-status-updated", "waiter-requested"}
Callbacks == {"f", "g", "h"}

\* A text frame as the page's message handler sees it: whether JSON.parse
\* accepts it, the envelope's type and its payload. No component subscribes to
\* "ping".
ClientFrames ==
    {[parses |-> FALSE, type |-> Undefined, payload |-> Undefined]}
    \cup {[parses |-> TRUE, type |-> ty, payload |-> "order 42"] :
             ty \in EventTypes \cup {"ping"}}

Slots == 1..MaxPending

\* The payload object of an inbound envelope, with every key the dispatcher
\* reads; a key the sender left out holds Undefined.
NoPayload ==
    [restaurantId |-> Undefined, tableId |-> Undefined, orderId |-> Undefined,
     status |-> Undefined, order |-> Undefined, customerName |-> Undefined,
     timestamp |-> Undefined]

\* The envelope a component of the page sends (useOrders, use-socket.ts).
ClientMessages ==
    {[type |-> "update-order-status",
      payload |-> [NoPayload EXCEPT !.orderId = "42", !.status = "served",
                                    !.restaurantId = "7"]]}

RegisterRestaurantPayloads ==
    { [NoPayload EXCEPT !.restaurantId = r] : r \in RestaurantIds \cup {Undefined} }

RegisterTablePayloads ==
    { [NoPayload EXCEPT !.restaurantId = r, !.tableId = t] :
        r \in RestaurantIds \cup {Undefined}, t \in TableIds \cup {Undefined} }

OrderStatusUpdates ==
    { [NoPayload EXCEPT !.orderId = o, !.status = st, !.restaurantId = r] :
        o \in OrderIds, st \in Statuses, r \in RestaurantIds \cup {Undefined} }

NewOrders ==
    { [NoPayload EXCEPT !.restaurantId = r, !.order = o] :
        r \in RestaurantIds \cup {Undefined}, o \in {Undefined, "42"} }

WaiterRequests ==
    { [NoPayload EXCEPT !.restaurantId = r, !.tableId = t,
                        !.customerName = "Ana",
                        !.timestamp = "2024-01-01T00:00:00Z"] :
        r \in RestaurantIds \cup {Undefined}, t \in {"3"} }

\* A text frame as the message handler sees it: whether JSON.parse accepts it,
\* the envelope's type, whether the envelope has a payload object, the payload.
Frame(parses, type, hasPayload, payload) ==
    [parses |-> parses, type |-> type, hasPayload |-> hasPayload, payload |-> payload]

Frames ==
    {Frame(FALSE, Undefined, FALSE, NoPayload)}
    \cup {Frame(TRUE, "ping", TRUE, NoPayload)}
    \cup {Frame(TRUE, ty, FALSE, NoPayload) :
            ty \in {"register-restaurant", "register-table", "update-order-status",
                    "new-order", "call-waiter"}}
    \cup {Frame(TRUE, "register-restaurant", TRUE, p) : p \in RegisterRestaurantPayloads}
    \cup {Frame(TRUE, "register-table", TRUE, p) : p \in RegisterTablePayloads}
    \cup {Frame(TRUE, "update-order-status", TRUE, p) : p \in OrderStatusUpdates}
    \cup {Frame(TRUE, "new-order", TRUE, p) : p \in NewOrders}
    \cup {Frame(TRUE, "call-waiter", TRUE, p) : p \in WaiterRequests}

VARIABLES
    \* ---- server (part_012, part_014)
    clients,        \* the registry: a sequence of SocketClient entries
    pending,        \* update-order-status handlers suspended on their await
    orders,         \* the orders table: status of every row, by id
    sent,           \* socket.send calls of the last step, in call order
    storageCalls,   \* storage.updateOrder calls of the last step's message handler
    errorLogged,    \* whether the last step ran the handler's catch block
    \* ---- client (client/src/lib/socket.ts)
    socket,         \* let socket: the current WebSocket object, or Null
    ws,             \* every WebSocket object the page holds: state and closure
    reconnectTimer, \* let reconnectTimer: a timer handle, or Null
    timers,         \* the browser's timers: pending or not, and their closure
    reconnectAttempts,
    retries,        \* timers scheduled since the last open or disconnect
    outbox,         \* socket.send calls of the last step, in call order
    console,        \* the last console line of the last step
    listeners,      \* const listeners: event type -> list of callbacks
    invoked,        \* callback invocations of the last step, in call order
    escaped,        \* whether an exception left the last step's event handler
    returned,       \* what the sendMessage call of the last step returned
    requested       \* the identity of the application's last connect call,
                    \* none before the first call and after a disconnect call

svars == <<clients, pending, orders, sent, storageCalls, errorLogged>>
cvars == <<socket, ws, reconnectTimer, timers, reconnectAttempts, retries, outbox,
           console, listeners, invoked, escaped, returned, requested>>
vars == <<svars, cvars>>

\* ---------------------------------------------------------------- server
NoHandler == [phase |-> "none", payload |-> NoPayload, result |-> Undefined]

\* const client: SocketClient = { socket }. The socket object is the entry's
\* place in the registry (entries are only appended and filtered out, so every
\* socket is in the registry once); the entry carries the socket's readyState.
SocketClient ==
    [readyState |-> "OPEN", restaurantId |-> Undefined, tableId |-> Undefined]

\* The sockets of the registry.
Sockets == 1..Len(clients)

\* JSON.stringify(message) of an outbound SocketMessage: the two keys of the
\* envelope; a payload that is undefined is dropped from the text.
JSONstringify(message) == [type |-> message.type, payload |-> message.payload]

SocketMessage(type, payload) == [type |-> type, payload |-> payload]

\* clients.forEach(client => { if (...) client.socket.send(data) }): one
\* socket.send(data) call for each of the sockets in targets, a sequence in
\* registry order.
ForEachSend(targets, data) ==
    [k \in 1..Len(targets) |-> [to |-> targets[k], data |-> data]]

\* The sockets of the registry, in registry order.
InOrder == [i \in 1..Len(clients) |-> i]

\* Mutant of broadcastToRestaurant: the restaurantId comparison is left out.
broadcastToRestaurant_AllOpen(restaurantId, message) ==
    LET Match(i) == clients[i].readyState = "OPEN"
    IN ForEachSend(SelectSeq(InOrder, Match), JSONstringify(message))

\* broadcastToRestaurant: the socket.send calls it makes.
broadcastToRestaurant(restaurantId, message) ==
    LET Match(i) == /\ clients[i].restaurantId = restaurantId
                    /\ clients[i].readyState = "OPEN"
    IN ForEachSend(SelectSeq(InOrder, Match), JSONstringify(message))

\* Mutant of sendToTable: the tableId comparison is left out.
sendToTable_RestaurantOnly(restaurantId, tableId, message) ==
    LET Match(i) == /\ clients[i].restaurantId = restaurantId
                    /\ clients[i].readyState = "OPEN"
    IN ForEachSend(SelectSeq(InOrder, Match), JSONstringify(message))

\* sendToTable: the socket.send calls it makes.
sendToTable(restaurantId, tableId, message) ==
    LET Match(i) == /\ clients[i].restaurantId = restaurantId
                    /\ clients[i].tableId = tableId
                    /\ clients[i].readyState = "OPEN"
    IN ForEachSend(SelectSeq(InOrder, Match), JSONstringify(message))

\* The envelope the server's other modules hand to sendToTable.
TableMessage ==
    SocketMessage("order-ready", [NoPayload EXCEPT !.orderId = "42"])

\* Another module of the server calls the exported sendToTable.
SendToTable(restaurantId, tableId) ==
    /\ UNCHANGED <<clients, pending, orders>>
    /\ storageCalls' = <<>>
    /\ errorLogged' = FALSE
    /\ sent' = sendToTable(restaurantId, tableId, TableMessage)

\* wss.on('connection'): a new socket, open, is appended to the registry.
Connection ==
    /\ Len(clients) < MaxClients
    /\ clients' = Append(clients, SocketClient)
    /\ sent' = <<>>
    /\ storageCalls' = <<>>
    /\ errorLogged' = FALSE
    /\ UNCHANGED <<pending, orders>>

\* The effects a step without sends, storage calls or a caught error records.
Quiet ==
    /\ sent' = <<>>
    /\ storageCalls' = <<>>
    /\ errorLogged' = FALSE

\* Mutant of Caught: the catch block also closes the sender's socket.
Caught_ClosesSocket(s) ==
    /\ errorLogged' = TRUE
    /\ sent' = <<>>
    /\ storageCalls' = <<>>
    /\ clients' = [clients EXCEPT ![s].readyState = "CLOSING"]
    /\ UNCHANGED <<pending, orders>>

\* catch (error) { console.error(...) } in the handler of socket s: the handler
\* ends, nothing else changes.
Caught(s) ==
    /\ errorLogged' = TRUE
    /\ sent' = <<>>
    /\ storageCalls' = <<>>
    /\ UNCHANGED <<clients, pending, orders>>

\* Mutant of case 'register-restaurant': the entry's tableId is reset.
RegisterRestaurant_ClearsTable(s, payload) ==
    /\ clients' = [clients EXCEPT ![s].restaurantId = payload.restaurantId,
                                  ![s].tableId = Undefined]
    /\ Quiet
    /\ UNCHANGED <<pending, orders>>

\* case 'register-restaurant'
RegisterRestaurant(s, payload) ==
    /\ clients' = [clients EXCEPT ![s].restaurantId = payload.restaurantId]
    /\ Quiet
    /\ UNCHANGED <<pending, orders>>

\* case 'register-table'
RegisterTable(s, payload) ==
    /\ clients' = [clients EXCEPT ![s].restaurantId = payload.restaurantId,
                                  ![s].tableId = payload.tableId]
    /\ Quiet
    /\ UNCHANGED <<pending, orders>>

\* case 'update-order-status', up to its await: storage.updateOrder is called
\* and the handler is suspended until the promise settles.
UpdateOrderStatus(updateData) ==
    \E slot \in DOMAIN pending :
        /\ pending[slot].phase = "none"
        /\ \A k \in DOMAIN pending : k < slot => pending[k].phase # "none"
        /\ pending' = [pending EXCEPT ![slot] =
                          [phase |-> "awaiting", payload |-> updateData,
                           result |-> Undefined]]
        /\ storageCalls' = <<[orderId |-> updateData.orderId,
                              status |-> updateData.status]>>
        /\ sent' = <<>>
        /\ errorLogged' = FALSE
        /\ UNCHANGED <<clients, orders>>

\* Mutant of case 'new-order': the order is also written to storage.
NewOrder_Persists(orderData) ==
    /\ UNCHANGED <<clients, pending, orders>>
    /\ storageCalls' = <<[orderId |-> orderData.order, status |-> "pending"]>>
    /\ errorLogged' = FALSE
    /\ sent' = broadcastToRestaurant(orderData.restaurantId,
                   SocketMessage("new-order-received", orderData.order))

\* case 'new-order'
NewOrder(orderData) ==
    /\ UNCHANGED <<clients, pending, orders>>
    /\ storageCalls' = <<>>
    /\ errorLogged' = FALSE
    /\ sent' = broadcastToRestaurant(orderData.restaurantId,
                   SocketMessage("new-order-received", orderData.order))

\* Mutant of case 'call-waiter': the broadcast is narrowed to the table.
CallWaiter_TableOnly(waiterRequest) ==
    LET Match(i) == /\ clients[i].restaurantId = waiterRequest.restaurantId
                    /\ clients[i].tableId = waiterRequest.tableId
                    /\ clients[i].readyState = "OPEN"
    IN /\ UNCHANGED <<clients, pending, orders>>
       /\ storageCalls' = <<>>
       /\ errorLogged' = FALSE
       /\ sent' = ForEachSend(SelectSeq(InOrder, Match),
                      JSONstringify(SocketMessage("waiter-requested", waiterRequest)))

\* case 'call-waiter'
CallWaiter(waiterRequest) ==
    /\ UNCHANGED <<clients, pending, orders>>
    /\ storageCalls' = <<>>
    /\ errorLogged' = FALSE
    /\ sent' = broadcastToRestaurant(waiterRequest.restaurantId,
                   SocketMessage("waiter-requested", waiterRequest))

\* A type the switch has no case for: the handler ends without any effect.
NoCase ==
    /\ Quiet
    /\ UNCHANGED <<clients, pending, orders>>

KnownTypes ==
    {"register-restaurant", "register-table", "update-order-status", "new-order",
     "call-waiter"}

\* Mutant of socket.on('message'): a message is not handled while a storage
\* write of an earlier message is outstanding.
OnMessage_WaitsForStorage(s, f) ==
    /\ \A slot \in Slots : pending[slot].phase = "none"
    /\ clients[s].readyState = "OPEN"
    /\ IF ~f.parses THEN Caught(s)
       ELSE IF f.type \notin KnownTypes THEN NoCase
       ELSE IF ~f.hasPayload THEN Caught(s)
       ELSE CASE f.type = "register-restaurant" -> RegisterRestaurant(s, f.payload)
              [] f.type = "register-table" -> RegisterTable(s, f.payload)
              [] f.type = "update-order-status" -> UpdateOrderStatus(f.payload)
              [] f.type = "new-order" -> NewOrder(f.payload)
              [] f.type = "call-waiter" -> CallWaiter(f.payload)

\* socket.on('message'): the handler of socket s, run on frame f up to its
\* first suspension point. JSON.parse throws on a frame that is no JSON; every
\* case reads a property of message.payload, which throws when the envelope has
\* no payload; both end in the catch block.
OnMessage(s, f) ==
    /\ clients[s].readyState = "OPEN"
    /\ IF ~f.parses THEN Caught(s)
       ELSE IF f.type \notin KnownTypes THEN NoCase
       ELSE IF ~f.hasPayload THEN Caught(s)
       ELSE CASE f.type = "register-restaurant" -> RegisterRestaurant(s, f.payload)
              [] f.type = "register-table" -> RegisterTable(s, f.payload)
              [] f.type = "update-order-status" -> UpdateOrderStatus(f.payload)
              [] f.type = "new-order" -> NewOrder(f.payload)
              [] f.type = "call-waiter" -> CallWaiter(f.payload)

\* DatabaseStorage.updateOrder(id, {status}): the UPDATE ... WHERE id = $1
\* RETURNING statement. The orders table after it, and the row it returns
\* (undefined when no row has that id).
updateOrderRows(id, status) ==
    IF id \in DOMAIN orders THEN [orders EXCEPT ![id] = status] ELSE orders

updateOrderResult(id) ==
    IF id \in DOMAIN orders THEN id ELSE Undefined

\* DatabaseStorage.createOrder(order): the INSERT ... RETURNING statement. The
\* orders table after it: one more row, with the next id and the order's
\* status.
createOrderRows(status) ==
    LET id == OrderSerial[Cardinality(DOMAIN orders) + 1]
    IN [o \in DOMAIN orders \cup {id} |-> IF o = id THEN status ELSE orders[o]]

\* POST /api/restaurants/:id/orders with the status of the request's body:
\* the route creates the order. No websocket handler takes part and nothing
\* is sent.
CreateOrder(status) ==
    /\ Cardinality(DOMAIN orders) < MaxOrders
    /\ Cardinality(DOMAIN orders) < Len(OrderSerial)
    /\ orders' = createOrderRows(status)
    /\ Quiet
    /\ UNCHANGED <<clients, pending>>

\* PUT /api/restaurants/:id/orders/:orderId: the route calls
\* storage.updateOrder(orderId, {status}) and answers 404 when no row came
\* back. No websocket handler takes part and nothing is sent.
PutOrder(orderId, status) ==
    /\ orders' = updateOrderRows(orderId, status)
    /\ Quiet
    /\ UNCHANGED <<clients, pending>>

\* The database executes the statement of a suspended handler and the promise
\* settles: it resolves with the returned row, or rejects. A rejected
\* statement has failed, the table unchanged, or was applied but its result
\* was lost with the connection.
StorageSettles(slot, fails, applied) ==
    /\ pending[slot].phase = "awaiting"
    /\ fails \/ applied
    /\ LET h == pending[slot]
       IN IF fails
          THEN /\ pending' = [pending EXCEPT ![slot].phase = "rejected"]
               /\ orders' = IF applied
                            THEN updateOrderRows(h.payload.orderId, h.payload.status)
                            ELSE orders
          ELSE /\ pending' = [pending EXCEPT
                                 ![slot].phase = "resolved",
                                 ![slot].result = updateOrderResult(h.payload.orderId)]
               /\ orders' = updateOrderRows(h.payload.orderId, h.payload.status)
    /\ Quiet
    /\ UNCHANGED clients

\* Mutant of AfterAwait: the broadcast does not depend on the storage call's
\* outcome.
AfterAwait_IgnoresRejection(h) ==
    broadcastToRestaurant(h.payload.restaurantId,
        SocketMessage("order-status-updated", h.payload))

\* The rest of case 'update-order-status' once the awaited promise has
\* settled: the socket.send calls of the handler h.
AfterAwait(h) ==
    IF h.phase = "resolved"
    THEN broadcastToRestaurant(h.payload.restaurantId,
             SocketMessage("order-status-updated", h.payload))
    ELSE <<>>

\* The suspended handler resumes: after a resolved promise it broadcasts, after
\* a rejected one the await throws into the catch block.
Resume(slot) ==
    /\ pending[slot].phase \in {"resolved", "rejected"}
    /\ pending' = [pending EXCEPT ![slot] = NoHandler]
    /\ UNCHANGED <<clients, orders>>
    /\ errorLogged' = (pending[slot].phase = "rejected")
    /\ storageCalls' = <<>>
    /\ sent' = AfterAwait(pending[slot])

\* The closing handshake of socket s starts (a close frame arrived): the
\* socket is no longer open, its 'close' event has not been emitted yet.
Closing(s) ==
    /\ clients[s].readyState = "OPEN"
    /\ clients' = [clients EXCEPT ![s].readyState = "CLOSING"]
    /\ Quiet
    /\ UNCHANGED <<pending, orders>>

\* Mutant of socket.on('close'): the entry is marked closed and stays in the
\* registry.
OnClose_KeepsEntry(s) ==
    /\ clients' = [clients EXCEPT ![s].readyState = "CLOSED"]
    /\ Quiet
    /\ UNCHANGED <<pending, orders>>

\* socket.on('close'): clients = clients.filter(c => c.socket !== socket)
OnClose(s) ==
    /\ clients' = [i \in 1..(Len(clients) - 1) |->
                      IF i < s THEN clients[i] ELSE clients[i + 1]]
    /\ Quiet
    /\ UNCHANGED <<pending, orders>>

ServerInit ==
    /\ clients = <<>>
    /\ pending = [k \in Slots |-> NoHandler]
    /\ orders = [o \in {} |-> "pending"]
    /\ sent = <<>>
    /\ storageCalls = <<>>
    /\ errorLogged = FALSE

ServerNext ==
    \/ Connection /\ UNCHANGED cvars
    \/ \E s \in Sockets, f \in Frames : OnMessage(s, f) /\ UNCHANGED cvars
    \/ \E slot \in Slots, fails \in BOOLEAN, applied \in BOOLEAN :
          StorageSettles(slot, fails, applied) /\ UNCHANGED cvars
    \/ \E status \in {"pending"} \cup Statuses : CreateOrder(status) /\ UNCHANGED cvars
    \/ \E o \in OrderIds, status \in Statuses : PutOrder(o, status) /\ UNCHANGED cvars
    \/ \E slot \in Slots : Resume(slot) /\ UNCHANGED cvars
    \/ \E s \in Sockets : Closing(s) /\ UNCHANGED cvars
    \/ \E s \in Sockets : OnClose(s) /\ UNCHANGED cvars
    \/ \E r \in RestaurantIds, t \in TableIds :
          SendToTable(r, t) /\ UNCHANGED cvars

\* ---------------------------------------------------------------- client
\* let socket: WebSocket | null = null; let reconnectTimer = null
Null == 0

MAX_RECONNECT_ATTEMPTS == 10
RECONNECT_DELAY == 3000
MaxDelay == 30000

ClientSockets == 1..MaxSocketObjects
TimerIds == 1..MaxTimers

\* Close codes a close event carries: normal closure, going away, no status,
\* abnormal, internal error.
CloseCodes == {1000, 1001, 1005, 1006, 1011}

\* What the Close frame of the server leads to: the code it carries, or no
\* status when it carries none. 1006 is never sent in a frame.
ServerCloseCodes == CloseCodes \ {1006}

\* An identity no WebSocket object or timer is using.
NoSocket ==
    [readyState |-> "FREE", wasOpen |-> FALSE, closeCode |-> 0,
     restaurantId |-> Undefined, tableId |-> Undefined]
NoTimer ==
    [pending |-> FALSE, restaurantId |-> Undefined, tableId |-> Undefined,
     delay |-> 0]

\* const listeners = {}: no event type has a list yet.
NoListeners == [key \in {} |-> <<>>]

\* No connect call of the application is in force.
NoRequest == [called |-> FALSE, restaurantId |-> Undefined, tableId |-> Undefined]

\* The module state of socket.ts, as the functions below read and change it.
Page ==
    [socket |-> socket, ws |-> ws, reconnectTimer |-> reconnectTimer,
     timers |-> timers, reconnectAttempts |-> reconnectAttempts,
     retries |-> retries, outbox |-> outbox, console |-> console,
     listeners |-> listeners, invoked |-> invoked, escaped |-> escaped,
     returned |-> returned]

\* The module state at the start of a step: nothing sent, logged, invoked,
\* thrown or returned yet.
Begin ==
    [Page EXCEPT !.outbox = <<>>, !.console = "", !.invoked = <<>>,
                 !.escaped = FALSE, !.returned = "none"]

\* The step ends in the module state st.
Becomes(st) ==
    /\ socket' = st.socket
    /\ ws' = st.ws
    /\ reconnectTimer' = st.reconnectTimer
    /\ timers' = st.timers
    /\ reconnectAttempts' = st.reconnectAttempts
    /\ retries' = st.retries
    /\ outbox' = st.outbox
    /\ console' = st.console
    /\ listeners' = st.listeners
    /\ invoked' = st.invoked
    /\ escaped' = st.escaped
    /\ returned' = st.returned

\* Math.min(a, b)
Min(a, b) == IF a < b THEN a ELSE b

\* The lowest identity of S, for a newly created object.
Lowest(S) == CHOOSE x \in S : \A y \in S : x <= y

\* if (restaurantId): undefined and 0 are falsy.
Truthy(id) == id \notin {Undefined, "0"}

\* The code of a close frame sent by socket.close() without arguments.
NoStatus == 1005
NormalClosure == 1000

\* socket.close(code) on the object s of the table w: a connecting or open
\* socket starts closing with that code, a closing or closed one is left as it
\* is.
Close(w, s, code) ==
    IF w[s].readyState \in {"CONNECTING", "OPEN"}
    THEN [w EXCEPT ![s].readyState = "CLOSING",
                   ![s].wasOpen = (w[s].readyState = "OPEN"),
                   ![s].closeCode = code]
    ELSE w

\* A closed object nothing refers to any more is dropped; cur is the value of
\* the socket variable.
Collect(w, cur) ==
    [s \in ClientSockets |->
        IF w[s].readyState = "CLOSED" /\ s # cur THEN NoSocket ELSE w[s]]

FreeSockets(w) == {s \in ClientSockets : w[s].readyState = "FREE"}

\* clearTimeout(handle) on the timer table tm.
ClearTimeout(tm, handle) ==
    IF handle # Null THEN [tm EXCEPT ![handle] = NoTimer] ELSE tm

FreeTimers(tm) == {h \in TimerIds : ~tm[h].pending}

\* Mutant of scheduleReconnect: the check against MAX_RECONNECT_ATTEMPTS is
\* left out.
scheduleReconnect_NoBound(st, restaurantId, tableId) ==
    LET cleared == ClearTimeout(st.timers, st.reconnectTimer)
        attempts == st.reconnectAttempts + 1
        handle == Lowest(FreeTimers(cleared))
    IN [st EXCEPT
           !.reconnectAttempts = attempts,
           !.retries = st.retries + 1,
           !.timers = [cleared EXCEPT ![handle] =
                          [pending |-> TRUE, restaurantId |-> restaurantId,
                           tableId |-> tableId,
                           delay |-> Min(RECONNECT_DELAY * attempts, MaxDelay)]],
           !.reconnectTimer = handle,
           !.console = "Scheduling reconnection attempt"]

\* Mutant of scheduleReconnect: every retry waits RECONNECT_DELAY, whatever
\* the attempt count.
scheduleReconnect_FixedDelay(st, restaurantId, tableId) ==
    LET cleared == ClearTimeout(st.timers, st.reconnectTimer)
        attempts == st.reconnectAttempts + 1
        handle == Lowest(FreeTimers(cleared))
    IN IF st.reconnectAttempts >= MAX_RECONNECT_ATTEMPTS
       THEN [st EXCEPT !.timers = cleared,
                       !.console = "Max reconnection attempts reached"]
       ELSE [st EXCEPT
                !.reconnectAttempts = attempts,
                !.retries = st.retries + 1,
                !.timers = [cleared EXCEPT ![handle] =
                               [pending |-> TRUE, restaurantId |-> restaurantId,
                                tableId |-> tableId, delay |-> RECONNECT_DELAY]],
                !.reconnectTimer = handle,
                !.console = "Scheduling reconnection attempt"]

\* scheduleReconnect(restaurantId, tableId) in the module state st.
scheduleReconnect(st, restaurantId, tableId) ==
    LET cleared == ClearTimeout(st.timers, st.reconnectTimer)
        attempts == st.reconnectAttempts + 1
        handle == Lowest(FreeTimers(cleared))
    IN IF st.reconnectAttempts >= MAX_RECONNECT_ATTEMPTS
       THEN [st EXCEPT !.timers = cleared,
                       !.console = "Max reconnection attempts reached"]
       ELSE [st EXCEPT
                !.reconnectAttempts = attempts,
                !.retries = st.retries + 1,
                !.timers = [cleared EXCEPT ![handle] =
                               [pending |-> TRUE, restaurantId |-> restaurantId,
                                tableId |-> tableId,
                                delay |-> Min(RECONNECT_DELAY * attempts, MaxDelay)]],
                !.reconnectTimer = handle,
                !.console = "Scheduling reconnection attempt"]

\* Mutant of sendMessage: the readyState test is left out, a message for a
\* socket that is not open is handed to it all the same.
sendMessage_NoStateTest(st, message, throws) ==
    IF st.socket = Null
    THEN [st EXCEPT !.console = "WebSocket is not connected. Message not sent",
                    !.returned = "false"]
    ELSE [st EXCEPT !.outbox = Append(st.outbox, JSONstringify(message)),
                    !.returned = "true"]

\* sendMessage(message) in the module state st: the state after the call,
\* with the value the call returned; throws: whether JSON.stringify or
\* socket.send throws inside the try block.
sendMessage(st, message, throws) ==
    IF st.socket = Null \/ st.ws[st.socket].readyState # "OPEN"
    THEN [st EXCEPT !.console = "WebSocket is not connected. Message not sent",
                    !.returned = "false"]
    ELSE IF throws
    THEN [st EXCEPT !.console = "Error sending WebSocket message",
                    !.returned = "false"]
    ELSE [st EXCEPT !.outbox = Append(st.outbox, JSONstringify(message)),
                    !.returned = "true"]

\* Mutant of connectWebSocket: the guard on an open socket is left out, the
\* open socket is closed and replaced like any other.
connectWebSocket_NoGuard(st, restaurantId, tableId, throws) ==
    LET closed == IF st.socket # Null THEN Close(st.ws, st.socket, NoStatus)
                  ELSE st.ws
        kept == Collect(closed, Null)
    IN IF throws \/ FreeSockets(kept) = {}
       THEN scheduleReconnect([st EXCEPT !.ws = closed], restaurantId, tableId)
       ELSE [st EXCEPT
                !.ws = [kept EXCEPT ![Lowest(FreeSockets(kept))] =
                           [readyState |-> "CONNECTING", wasOpen |-> FALSE,
                            closeCode |-> 0,
                            restaurantId |-> restaurantId, tableId |-> tableId]],
                !.socket = Lowest(FreeSockets(kept)),
                !.console = "Attempting WebSocket connection"]

\* Mutant of connectWebSocket: the current socket is not closed before the
\* new one is created.
connectWebSocket_NoClose(st, restaurantId, tableId, throws) ==
    IF st.socket # Null /\ st.ws[st.socket].readyState = "OPEN"
    THEN [st EXCEPT !.console = "WebSocket already connected"]
    ELSE IF throws
    THEN scheduleReconnect(st, restaurantId, tableId)
    ELSE LET kept == Collect(st.ws, Null)
             s == Lowest(FreeSockets(kept))
         IN [st EXCEPT
                !.ws = [kept EXCEPT ![s] =
                           [readyState |-> "CONNECTING", wasOpen |-> FALSE,
                            closeCode |-> 0,
                            restaurantId |-> restaurantId,
                            tableId |-> tableId]],
                !.socket = s,
                !.console = "Attempting WebSocket connection"]

\* connectWebSocket(restaurantId, tableId) in the module state st; throws:
\* whether new WebSocket(wsUrl) throws.
connectWebSocket(st, restaurantId, tableId, throws) ==
    IF st.socket # Null /\ st.ws[st.socket].readyState = "OPEN"
    THEN [st EXCEPT !.console = "WebSocket already connected"]
    ELSE LET closed == IF st.socket # Null THEN Close(st.ws, st.socket, NoStatus)
                       ELSE st.ws
         IN IF throws
            THEN scheduleReconnect([st EXCEPT !.ws = closed], restaurantId, tableId)
            ELSE LET kept == Collect(closed, Null)
                     s == Lowest(FreeSockets(kept))
                 IN [st EXCEPT
                        !.ws = [kept EXCEPT ![s] =
                                   [readyState |-> "CONNECTING", wasOpen |-> FALSE,
                                    closeCode |-> 0,
                                    restaurantId |-> restaurantId,
                                    tableId |-> tableId]],
                        !.socket = s,
                        !.console = "Attempting WebSocket connection"]

\* Mutant of onopen: reconnectAttempts is not reset.
onopen_NoReset(st, s) ==
    LET restaurantId == st.ws[s].restaurantId
        tableId == st.ws[s].tableId
        logged == [st EXCEPT !.retries = 0,
                             !.console = "WebSocket connected successfully"]
        first == sendMessage(logged,
                     SocketMessage("register-restaurant",
                         [NoPayload EXCEPT !.restaurantId = restaurantId]),
                     FALSE)
        second == sendMessage(first,
                      SocketMessage("register-table",
                          [NoPayload EXCEPT !.restaurantId = restaurantId,
                                            !.tableId = tableId]),
                      FALSE)
    IN IF ~Truthy(restaurantId) THEN logged
       ELSE IF ~Truthy(tableId) THEN [first EXCEPT !.returned = "none"]
       ELSE [second EXCEPT !.returned = "none"]

\* Mutant of onopen: the table registration is sent before the restaurant
\* registration.
onopen_TableFirst(st, s) ==
    LET restaurantId == st.ws[s].restaurantId
        tableId == st.ws[s].tableId
        reset == [st EXCEPT !.reconnectAttempts = 0, !.retries = 0,
                            !.console = "WebSocket connected successfully"]
        table == sendMessage(reset,
                     SocketMessage("register-table",
                         [NoPayload EXCEPT !.restaurantId = restaurantId,
                                           !.tableId = tableId]),
                     FALSE)
        first == sendMessage(IF Truthy(tableId) THEN table ELSE reset,
                     SocketMessage("register-restaurant",
                         [NoPayload EXCEPT !.restaurantId = restaurantId]),
                     FALSE)
    IN IF ~Truthy(restaurantId) THEN reset
       ELSE [first EXCEPT !.returned = "none"]

\* socket.onopen of the object s, whose closure holds the identity it was
\* created with. What the sendMessage calls return is not looked at.
onopen(st, s) ==
    LET restaurantId == st.ws[s].restaurantId
        tableId == st.ws[s].tableId
        reset == [st EXCEPT !.reconnectAttempts = 0, !.retries = 0,
                            !.console = "WebSocket connected successfully"]
        first == sendMessage(reset,
                     SocketMessage("register-restaurant",
                         [NoPayload EXCEPT !.restaurantId = restaurantId]),
                     FALSE)
        second == sendMessage(first,
                      SocketMessage("register-table",
                          [NoPayload EXCEPT !.restaurantId = restaurantId,
                                            !.tableId = tableId]),
                      FALSE)
    IN IF ~Truthy(restaurantId) THEN reset
       ELSE IF ~Truthy(tableId) THEN [first EXCEPT !.returned = "none"]
       ELSE [second EXCEPT !.returned = "none"]

\* socket.onclose of the object s with event.code = code.
onclose(st, s, code) ==
    LET logged == [st EXCEPT !.console = "WebSocket disconnected"]
    IN IF code # 1000 /\ code # 1001
       THEN scheduleReconnect(logged, st.ws[s].restaurantId, st.ws[s].tableId)
       ELSE logged

\* Mutant of disconnectWebSocket: the listeners are left registered.
disconnectWebSocket_KeepsListeners(st) ==
    LET closed == IF st.socket # Null THEN Close(st.ws, st.socket, NormalClosure)
                  ELSE st.ws
    IN [st EXCEPT !.ws = Collect(closed, Null),
                  !.socket = Null,
                  !.timers = ClearTimeout(st.timers, st.reconnectTimer),
                  !.reconnectTimer = Null,
                  !.reconnectAttempts = 0,
                  !.retries = 0]

\* disconnectWebSocket() in the module state st.
disconnectWebSocket(st) ==
    LET closed == IF st.socket # Null THEN Close(st.ws, st.socket, NormalClosure)
                  ELSE st.ws
    IN [st EXCEPT !.ws = Collect(closed, Null),
                  !.socket = Null,
                  !.timers = ClearTimeout(st.timers, st.reconnectTimer),
                  !.reconnectTimer = Null,
                  !.reconnectAttempts = 0,
                  !.retries = 0,
                  !.listeners = [key \in DOMAIN st.listeners |-> <<>>]]

\* addEventListener(event, callback) in the module state st.
addEventListener(st, event, callback) ==
    LET list == IF event \in DOMAIN st.listeners THEN st.listeners[event] ELSE <<>>
    IN [st EXCEPT !.listeners =
           [key \in DOMAIN st.listeners \cup {event} |->
               IF key = event THEN Append(list, callback) ELSE st.listeners[key]]]

\* Mutant of removeEventListener: the first occurrence of the callback is
\* taken out of the list, a later one stays.
removeEventListener_FirstOnly(st, event, callback) ==
    IF event \in DOMAIN st.listeners
         /\ \E k \in 1..Len(st.listeners[event]) : st.listeners[event][k] = callback
    THEN LET list == st.listeners[event]
             first == CHOOSE k \in 1..Len(list) :
                         list[k] = callback /\ \A j \in 1..(k - 1) : list[j] # callback
         IN [st EXCEPT !.listeners[event] =
                SubSeq(list, 1, first - 1) \o SubSeq(list, first + 1, Len(list))]
    ELSE st

\* removeEventListener(event, callback) in the module state st.
removeEventListener(st, event, callback) ==
    LET Other(cb) == cb # callback
    IN IF event \in DOMAIN st.listeners
       THEN [st EXCEPT !.listeners[event] = SelectSeq(@, Other)]
       ELSE st

\* The callbacks of list up to and including the first one in throwers.
RECURSIVE UpToFirst(_, _)
UpToFirst(list, throwers) ==
    IF list = <<>> THEN <<>>
    ELSE IF Head(list) \in throwers THEN <<Head(list)>>
    ELSE <<Head(list)>> \o UpToFirst(Tail(list), throwers)

\* Mutant of onmessage: the try block around the callback is left out; the
\* first callback that throws ends the forEach and the outer catch logs.
onmessage_NoIsolation(st, frame, throwers) ==
    IF ~frame.parses
    THEN [st EXCEPT !.console = "Error parsing WebSocket message"]
    ELSE IF frame.type \notin DOMAIN st.listeners THEN st
    ELSE LET list == UpToFirst(st.listeners[frame.type], throwers)
         IN [st EXCEPT
                !.invoked = [k \in 1..Len(list) |->
                                [callback |-> list[k], payload |-> frame.payload]],
                !.console = IF \E k \in 1..Len(list) : list[k] \in throwers
                            THEN "Error parsing WebSocket message" ELSE @]

\* Mutant of onmessage: the outer try block is left out; the exception of
\* JSON.parse leaves the handler.
onmessage_NoOuterTry(st, frame, throwers) ==
    IF ~frame.parses
    THEN [st EXCEPT !.escaped = TRUE]
    ELSE IF frame.type \notin DOMAIN st.listeners THEN st
    ELSE LET list == st.listeners[frame.type]
         IN [st EXCEPT
                !.invoked = [k \in 1..Len(list) |->
                                [callback |-> list[k], payload |-> frame.payload]],
                !.console = IF \E k \in 1..Len(list) : list[k] \in throwers
                            THEN "Error in listener" ELSE @]

\* The list without the later occurrences of a callback that is in it before.
RECURSIVE Once(_)
Once(list) ==
    IF list = <<>> THEN <<>>
    ELSE LET front == Once(SubSeq(list, 1, Len(list) - 1))
             last == list[Len(list)]
         IN IF \E k \in 1..Len(front) : front[k] = last THEN front
            ELSE Append(front, last)

\* Mutant of onmessage: each callback of the list is invoked once, however
\* many times it is registered.
onmessage_OncePerCallback(st, frame, throwers) ==
    IF ~frame.parses
    THEN [st EXCEPT !.console = "Error parsing WebSocket message"]
    ELSE IF frame.type \notin DOMAIN st.listeners THEN st
    ELSE LET list == Once(st.listeners[frame.type])
         IN [st EXCEPT
                !.invoked = [k \in 1..Len(list) |->
                                [callback |-> list[k], payload |-> frame.payload]],
                !.console = IF \E k \in 1..Len(list) : list[k] \in throwers
                            THEN "Error in listener" ELSE @]

\* socket.onmessage on the frame `frame` in the module state st; throwers: the
\* callbacks that throw when they are called with this payload.
onmessage(st, frame, throwers) ==
    IF ~frame.parses
    THEN [st EXCEPT !.console = "Error parsing WebSocket message"]
    ELSE IF frame.type \notin DOMAIN st.listeners THEN st
    ELSE LET list == st.listeners[frame.type]
         IN [st EXCEPT
                !.invoked = [k \in 1..Len(list) |->
                                [callback |-> list[k], payload |-> frame.payload]],
                !.console = IF \E k \in 1..Len(list) : list[k] \in throwers
                            THEN "Error in listener" ELSE @]

\* How many callbacks are registered, all event types together.
RECURSIVE Registered(_, _)
Registered(l, keys) ==
    IF keys = {} THEN 0
    ELSE LET key == CHOOSE k \in keys : TRUE
         IN Len(l[key]) + Registered(l, keys \ {key})

\* Whether there is an identity left for the timer scheduleReconnect may
\* create, and for the WebSocket object connectWebSocket may create.
TimerRoom(st) == FreeTimers(ClearTimeout(st.timers, st.reconnectTimer)) # {}

Room(st, throws) ==
    \/ st.socket # Null /\ st.ws[st.socket].readyState = "OPEN"
    \/ throws /\ TimerRoom(st)
    \/ ~throws /\ FreeSockets(Collect(st.ws, Null)) # {}

\* The application calls connectWebSocket(restaurantId, tableId).
Connect(restaurantId, tableId, throws) ==
    /\ Room(Begin, throws)
    /\ Becomes(connectWebSocket(Begin, restaurantId, tableId, throws))
    /\ requested' = [called |-> TRUE, restaurantId |-> restaurantId,
                     tableId |-> tableId]
    /\ UNCHANGED svars

\* The callback of a pending timer runs: connectWebSocket with the identity
\* the timer was scheduled with.
TimerFires(handle, throws) ==
    /\ timers[handle].pending
    /\ LET fired == [Begin EXCEPT !.timers[handle].pending = FALSE]
       IN /\ Room(fired, throws)
          /\ Becomes(connectWebSocket(fired, timers[handle].restaurantId,
                                      timers[handle].tableId, throws))
    /\ UNCHANGED <<requested, svars>>

\* The connection of the object s is established: its open event.
SocketOpens(s) ==
    /\ ws[s].readyState = "CONNECTING"
    /\ Becomes(onopen([Begin EXCEPT !.ws[s].readyState = "OPEN"], s))
    /\ UNCHANGED <<requested, svars>>

\* The codes the close event of the object s can carry: a connection that was
\* never established fails with 1006; one that is closing after it was open
\* (by socket.close of the page, or by the server's Close frame) closes with
\* the code of the handshake, or with 1006 when the connection is lost first;
\* an open one ends without handshake only by being lost, with 1006.
ClosesWith(s) ==
    IF ws[s].readyState = "CLOSING" /\ ws[s].wasOpen THEN {ws[s].closeCode, 1006}
    ELSE {1006}

\* The server's Close frame with `code` arrives on the open object s: the
\* closing handshake starts and readyState is CLOSING, without a close() of
\* the page; the close event is delivered in a later task.
SocketClosing(s, code) ==
    /\ ws[s].readyState = "OPEN"
    /\ Becomes([Begin EXCEPT !.ws[s].readyState = "CLOSING",
                             !.ws[s].wasOpen = TRUE,
                             !.ws[s].closeCode = code])
    /\ UNCHANGED <<requested, svars>>

\* The connection of the object s ends: its close event, with its code.
SocketCloses(s, code) ==
    /\ ws[s].readyState \in {"CONNECTING", "OPEN", "CLOSING"}
    /\ code \in ClosesWith(s)
    /\ TimerRoom(Begin)
    /\ LET ended == [Begin EXCEPT !.ws[s].readyState = "CLOSED"]
           after == onclose(ended, s, code)
       IN Becomes([after EXCEPT !.ws = Collect(after.ws, after.socket)])
    /\ UNCHANGED <<requested, svars>>

\* The application calls disconnectWebSocket().
Disconnect ==
    /\ Becomes(disconnectWebSocket(Begin))
    /\ requested' = NoRequest
    /\ UNCHANGED svars

\* A component of the page calls addEventListener(event, callback).
AddEventListener(event, callback) ==
    /\ Registered(listeners, DOMAIN listeners) < MaxListeners
    /\ Becomes(addEventListener(Begin, event, callback))
    /\ UNCHANGED <<requested, svars>>

\* A component of the page calls removeEventListener(event, callback).
RemoveEventListener(event, callback) ==
    /\ Becomes(removeEventListener(Begin, event, callback))
    /\ UNCHANGED <<requested, svars>>

\* A frame arrives on the open socket s: its message event.
MessageEvent(s, frame, throwers) ==
    /\ ws[s].readyState = "OPEN"
    /\ Becomes(onmessage(Begin, frame, throwers))
    /\ UNCHANGED <<requested, svars>>

\* A component of the page calls sendMessage(message).
Send(message, throws) ==
    /\ Becomes(sendMessage(Begin, message, throws))
    /\ UNCHANGED <<requested, svars>>

ClientInit ==
    /\ socket = Null
    /\ ws = [s \in ClientSockets |-> NoSocket]
    /\ reconnectTimer = Null
    /\ timers = [h \in TimerIds |-> NoTimer]
    /\ reconnectAttempts = 0
    /\ retries = 0
    /\ outbox = <<>>
    /\ console = ""
    /\ listeners = NoListeners
    /\ invoked = <<>>
    /\ escaped = FALSE
    /\ returned = "none"
    /\ requested = NoRequest

\* The identities of the pages: the staff's of restaurant 7 (no table), the
\* customers' of its table 3, and a page that has a table but no restaurant.
ClientIdentities ==
    {id \in ClientRestaurantIds \X ClientTableIds : id[1] = "7" \/ id[2] = "3"}

\* The pages: the transport's steps and the messages the page sends.
ClientNext ==
    \/ \E id \in ClientIdentities, throws \in BOOLEAN : Connect(id[1], id[2], throws)
    \/ \E h \in TimerIds, throws \in BOOLEAN : TimerFires(h, throws)
    \/ \E s \in ClientSockets : SocketOpens(s)
    \/ \E s \in ClientSockets, code \in ServerCloseCodes : SocketClosing(s, code)
    \/ \E s \in ClientSockets, code \in CloseCodes : SocketCloses(s, code)
    \/ Disconnect
    \/ \E message \in ClientMessages, throws \in BOOLEAN : Send(message, throws)

\* The page of table 3 of restaurant 7 with one subscribing component: the
\* transport's steps, the subscriptions of the callback f and the inbound
\* messages.
PageNext ==
    \/ \E throws \in BOOLEAN : Connect("7", "3", throws)
    \/ \E h \in TimerIds, throws \in BOOLEAN : TimerFires(h, throws)
    \/ \E s \in ClientSockets : SocketOpens(s)
    \/ \E s \in ClientSockets, code \in ServerCloseCodes : SocketClosing(s, code)
    \/ \E s \in ClientSockets, code \in CloseCodes : SocketCloses(s, code)
    \/ Disconnect
    \/ \E event \in EventTypes : AddEventListener(event, "f")
    \/ \E event \in EventTypes : RemoveEventListener(event, "f")
    \/ \E s \in ClientSockets, frame \in ClientFrames, throwers \in SUBSET {"f"} :
          MessageEvent(s, frame, throwers)

\* The listener registry with all its callbacks, on a connection that opens
\* and is closed in an orderly way: the components' subscriptions, the inbound
\* messages and the teardown.
RegistryNext ==
    \/ Connect("7", "3", FALSE)
    \/ \E s \in ClientSockets : SocketOpens(s)
    \/ \E s \in ClientSockets : SocketClosing(s, NormalClosure)
    \/ \E s \in ClientSockets : SocketCloses(s, NormalClosure)
    \/ Disconnect
    \/ \E event \in EventTypes, callback \in Callbacks :
          AddEventListener(event, callback)
    \/ \E event \in EventTypes, callback \in Callbacks :
          RemoveEventListener(event, callback)
    \/ \E s \in ClientSockets, frame \in ClientFrames, throwers \in SUBSET Callbacks :
          MessageEvent(s, frame, throwers)

\* The staff devices of restaurant 7 updating its orders over the channel
\* only: connections, their register-restaurant and update-order-status
\* messages, the order's creation, the database and the resuming handlers,
\* with up to MaxInFlight handlers suspended at a time.
OrderFrames ==
    {Frame(TRUE, "register-restaurant", TRUE, [NoPayload EXCEPT !.restaurantId = "7"])}
    \cup {Frame(TRUE, "update-order-status", TRUE, p) :
             p \in {u \in OrderStatusUpdates : u.restaurantId = "7"}}

OrdersNext ==
    \/ Connection /\ UNCHANGED cvars
    \/ \E s \in Sockets, f \in OrderFrames : OnMessage(s, f) /\ UNCHANGED cvars
    \/ \E slot \in 1..MaxInFlight, fails \in BOOLEAN, applied \in BOOLEAN :
          StorageSettles(slot, fails, applied) /\ UNCHANGED cvars
    \/ \E status \in {"pending"} \cup Statuses : CreateOrder(status) /\ UNCHANGED cvars
    \/ \E slot \in 1..MaxInFlight : Resume(slot) /\ UNCHANGED cvars

Init == ServerInit /\ ClientInit

\* No handler is suspended, and MaxInFlight handlers can be.
OrdersInit ==
    /\ clients = <<>>
    /\ pending = [k \in 1..MaxInFlight |-> NoHandler]
    /\ orders = [o \in {} |-> "pending"]
    /\ sent = <<>>
    /\ storageCalls = <<>>
    /\ errorLogged = FALSE
    /\ ClientInit

SpecOrders == OrdersInit /\ [][OrdersNext]_vars

SpecServer == Init /\ [][ServerNext]_vars

SpecClient == Init /\ [][ClientNext]_vars

SpecPage == Init /\ [][PageNext]_vars

SpecRegistry == Init /\ [][RegistryNext]_vars

\* ================================================================ claims
\* The elements of a sequence.
Range(q) == {q[i] : i \in 1..Len(q)}

\* How many socket.send calls of the last step went to socket i with data d.
SendsTo(log, i, d) == Cardinality({k \in 1..Len(log) : log[k].to = i /\ log[k].data = d})

\* The inbound frames that carry a payload and lead to a broadcast at once.
RelayFrames ==
    {Frame(TRUE, "new-order", TRUE, p) : p \in NewOrders}
    \cup {Frame(TRUE, "call-waiter", TRUE, p) : p \in WaiterRequests}

\* C1 - tenant scoping: whenever the dispatcher broadcasts for restaurantId X
\* (the relay of a new-order or call-waiter message, or the resumed handler of
\* an update-order-status message), every connection it sends to is registered
\* under X.
C1_TenantScoping ==
    [][ sent' # <<>> =>
        /\ \A s \in Sockets, f \in RelayFrames :
              OnMessage(s, f) =>
                  \A e \in Range(sent') :
                      clients'[e.to].restaurantId = f.payload.restaurantId
        /\ \A slot \in Slots :
              Resume(slot) =>
                  \A e \in Range(sent') :
                      clients'[e.to].restaurantId = pending[slot].payload.restaurantId
      ]_vars

\* C1 witness: a broadcast reached a connection while another open connection,
\* registered under a different restaurant, got nothing.
C1_Witness ==
    /\ sent # <<>>
    /\ \E i \in Sockets :
          /\ clients[i].readyState = "OPEN"
          /\ clients[i].restaurantId \in RestaurantIds
          /\ clients[i].restaurantId # clients[sent[1].to].restaurantId
          /\ \A e \in Range(sent) : e.to # i

\* C2 - call-waiter with payload {restaurantId: R, ...}: every open connection
\* registered under R, whatever its tableId, is sent exactly one
\* waiter-requested envelope carrying the inbound payload; no other connection
\* is sent anything.
C2_CallWaiterFanOut ==
    [][ \A s \in Sockets, p \in WaiterRequests :
            (p.restaurantId \in RestaurantIds
             /\ OnMessage(s, Frame(TRUE, "call-waiter", TRUE, p))) =>
                /\ \A i \in Sockets :
                      SendsTo(sent', i, [type |-> "waiter-requested", payload |-> p])
                        = IF clients[i].restaurantId = p.restaurantId
                             /\ clients[i].readyState = "OPEN"
                          THEN 1 ELSE 0
                /\ \A e \in Range(sent') :
                      e.data = [type |-> "waiter-requested", payload |-> p]
      ]_vars

\* C2 witness: a waiter call for table 3 reached two connections of the
\* restaurant, one of them not registered for table 3.
C2_Witness ==
    /\ Len(sent) = 2
    /\ sent[1].data.type = "waiter-requested"
    /\ sent[1].data.payload.tableId = "3"
    /\ sent[1].to # sent[2].to
    /\ \E e \in Range(sent) : clients[e.to].tableId # "3"

\* C3 - status-update ordering: storage.updateOrder(orderId, {status}) is
\* called when the message arrives and nothing is sent in that step; an
\* order-status-updated envelope is only sent by a handler whose storage call
\* has resolved; a handler whose storage call was rejected sends nothing.
C3_WriteBeforeBroadcast ==
    [][ /\ \A slot \in Slots :
              (pending[slot].phase = "none" /\ pending'[slot].phase # "none") =>
                  /\ pending'[slot].phase = "awaiting"
                  /\ storageCalls' = <<[orderId |-> pending'[slot].payload.orderId,
                                        status |-> pending'[slot].payload.status]>>
                  /\ sent' = <<>>
        /\ \A e \in Range(sent') :
              e.data.type = "order-status-updated" =>
                  \E slot \in Slots :
                      /\ pending[slot].phase = "resolved"
                      /\ pending[slot].payload = e.data.payload
                      /\ pending'[slot].phase = "none"
        /\ \A slot \in Slots :
              (pending[slot].phase = "rejected" /\ pending'[slot].phase # "rejected") =>
                  sent' = <<>>
        /\ \A slot \in Slots :
              (pending[slot].phase = "awaiting" /\ pending'[slot] # pending[slot]) =>
                  /\ pending'[slot].phase \in {"resolved", "rejected"}
                  /\ sent' = <<>>
      ]_vars

\* C3 witness: a resumed handler has just broadcast order-status-updated.
C3_Witness ==
    /\ sent # <<>>
    /\ sent[1].data.type = "order-status-updated"
    /\ "42" \in DOMAIN orders
    /\ orders["42"] = sent[1].data.payload.status

\* C4 - an order-status-updated envelope is sent only when updateOrder
\* returned an updated order, never when it found no order with that id.
C4_NoBroadcastWhenNotFound ==
    [][ \A e \in Range(sent') :
            e.data.type = "order-status-updated" =>
                \E slot \in Slots :
                    /\ pending[slot].phase = "resolved"
                    /\ pending[slot].payload = e.data.payload
                    /\ pending[slot].result # Undefined
      ]_vars

\* An envelope the dispatcher has to drop: no JSON, an unknown type, no
\* payload, or a new-order, update-order-status or call-waiter payload without
\* restaurantId.
Malformed(f) ==
    \/ ~f.parses
    \/ f.type \notin KnownTypes
    \/ ~f.hasPayload
    \/ /\ f.type \in {"new-order", "update-order-status", "call-waiter"}
       /\ f.payload.restaurantId = Undefined

\* C5 - a malformed envelope is dropped: handling it sends nothing to any
\* connection and calls the storage collaborator not at all.
C5_MalformedDropped ==
    [][ \A s \in Sockets, f \in Frames :
            (Malformed(f) /\ OnMessage(s, f)) =>
                (sent' = <<>> /\ storageCalls' = <<>>)
      ]_vars

\* The bad messages of C6: no JSON, or an unknown type.
BadFrames == {f \in Frames : ~f.parses \/ f.type \notin KnownTypes}

\* C6 - a bad message (no JSON, an unknown type, or an update-order-status
\* whose storage write fails) changes no registry entry, the sender's
\* included: no entry is removed, no registration changed, and the sender's
\* socket stays open, so that its handler goes on accepting messages.
C6_BadMessageFrame ==
    [][ /\ \A s \in Sockets, f \in BadFrames :
              OnMessage(s, f) => (clients' = clients /\ clients'[s].readyState = "OPEN")
        /\ \A slot \in Slots :
              (\/ \E applied \in BOOLEAN : StorageSettles(slot, TRUE, applied)
               \/ pending[slot].phase = "rejected" /\ Resume(slot))
                  => clients' = clients
      ]_vars

\* C6 witness: the catch block has just run while two connections are open
\* and registered.
C6_Witness ==
    /\ errorLogged
    /\ Len(clients) = 2
    /\ \A i \in Sockets :
          clients[i].readyState = "OPEN" /\ clients[i].restaurantId \in RestaurantIds

\* The timers that are pending.
PendingTimers(tm) == {h \in TimerIds : tm[h].pending}

\* C7 - reconnect bound: the attempt count never exceeds
\* MAX_RECONNECT_ATTEMPTS, no more than that many timers are scheduled without
\* an open or a disconnect in between, and once the count has reached the
\* maximum no timer is scheduled any more: the timer of the last attempt is
\* the only one that can still fire, and after it none is pending.
C7_ReconnectBound ==
    /\ [](reconnectAttempts <= MAX_RECONNECT_ATTEMPTS /\ retries <= MAX_RECONNECT_ATTEMPTS)
    /\ [](reconnectAttempts = MAX_RECONNECT_ATTEMPTS =>
              Cardinality(PendingTimers(timers)) <= 1)
    /\ [][ reconnectAttempts = MAX_RECONNECT_ATTEMPTS =>
              /\ PendingTimers(timers') \subseteq PendingTimers(timers)
              /\ \A h \in PendingTimers(timers') : timers'[h] = timers[h]
              /\ (\E h \in TimerIds, throws \in BOOLEAN : TimerFires(h, throws))
                    => PendingTimers(timers') = {}
         ]_vars

\* C7 witness: the count is at the maximum and the close event of one more
\* failed attempt has just been handled without scheduling anything.
C7_Witness ==
    /\ reconnectAttempts = MAX_RECONNECT_ATTEMPTS
    /\ retries = MAX_RECONNECT_ATTEMPTS
    /\ console = "Max reconnection attempts reached"
    /\ PendingTimers(timers) = {}

\* C8 - the attempt count is 0 right after every open event, whatever it was
\* before, and a step that schedules a retry raises it by exactly one.
C8_AttemptCount ==
    [][ /\ (\E s \in ClientSockets :
               ws[s].readyState = "CONNECTING" /\ ws'[s].readyState = "OPEN")
              => reconnectAttempts' = 0
        /\ (\/ \E h \in TimerIds : timers'[h].pending /\ timers'[h] # timers[h]
            \/ retries' = retries + 1)
              => reconnectAttempts' = reconnectAttempts + 1
        /\ reconnectAttempts' \in {0, reconnectAttempts, reconnectAttempts + 1}
      ]_vars

\* C8 witness: a connection has just opened and the count is 0 while the
\* timer of the tenth attempt (delay 30000) is still pending: the count was
\* at the maximum before the open event.
C8_Witness ==
    /\ reconnectAttempts = 0
    /\ console = "WebSocket connected successfully"
    /\ socket # Null
    /\ ws[socket].readyState = "OPEN"
    /\ \E h \in TimerIds :
          timers[h].pending /\ timers[h].delay = RECONNECT_DELAY * MAX_RECONNECT_ATTEMPTS

\* Whether the step is a call of connectWebSocket: by the application, or by
\* a reconnect timer.
ConnectCalled ==
    \/ \E r \in ClientRestaurantIds, t \in ClientTableIds, throws \in BOOLEAN :
          Connect(r, t, throws)
    \/ \E h \in TimerIds, throws \in BOOLEAN : TimerFires(h, throws)

\* The WebSocket objects a step creates.
Created == {s \in ClientSockets : ws[s].readyState = "FREE" /\ ws'[s].readyState # "FREE"}

\* C9 - idempotent connect: a call of connectWebSocket by the application
\* while the current socket is open creates no socket, closes none, sends
\* nothing and leaves the reconnect state as it is.
C9_ConnectWhileOpen ==
    [][ \A r \in ClientRestaurantIds, t \in ClientTableIds, throws \in BOOLEAN :
            (socket # Null /\ ws[socket].readyState = "OPEN" /\ Connect(r, t, throws)) =>
                /\ UNCHANGED <<socket, ws, reconnectTimer, timers, reconnectAttempts,
                               retries>>
                /\ outbox' = <<>>
      ]_vars

\* C9 witness: connectWebSocket has just returned at its guard, with the
\* socket open.
C9_Witness ==
    /\ console = "WebSocket already connected"
    /\ socket # Null
    /\ ws[socket].readyState = "OPEN"

\* C10 - a call of connectWebSocket (by the application or by a reconnect
\* timer) while the current socket is still connecting creates no second
\* socket.
C10_ConnectWhileConnecting ==
    [][ (socket # Null /\ ws[socket].readyState = "CONNECTING" /\ ConnectCalled) =>
            (Created = {} /\ socket' = socket)
      ]_vars

\* C16 - table narrowing: sendToTable(X, Y, message) sends the envelope only
\* to open connections registered with restaurantId X and tableId Y, once to
\* each; a connection of restaurant X with another or no tableId, and a
\* connection of another restaurant, is sent nothing.
C16_TableNarrowing ==
    [][ \A r \in RestaurantIds, t \in TableIds :
            SendToTable(r, t) =>
                /\ \A e \in Range(sent') :
                      /\ clients[e.to].restaurantId = r
                      /\ clients[e.to].tableId = t
                      /\ clients[e.to].readyState = "OPEN"
                      /\ e.data = JSONstringify(TableMessage)
                /\ \A i \in Sockets :
                      (clients[i].restaurantId # r \/ clients[i].tableId # t)
                          => SendsTo(sent', i, JSONstringify(TableMessage)) = 0
                /\ \A i \in Sockets :
                      (clients[i].restaurantId = r /\ clients[i].tableId = t
                       /\ clients[i].readyState = "OPEN")
                          => SendsTo(sent', i, JSONstringify(TableMessage)) = 1
      ]_vars

\* C16 witness: a table-scoped envelope has just been sent to one connection
\* while another open connection of the same restaurant, registered for
\* another table or for none, got nothing.
C16_Witness ==
    /\ Len(sent) = 1
    /\ sent[1].data.type = "order-ready"
    /\ \E i \in Sockets :
          /\ i # sent[1].to
          /\ clients[i].readyState = "OPEN"
          /\ clients[i].restaurantId = clients[sent[1].to].restaurantId
          /\ clients[i].tableId # clients[sent[1].to].tableId

\* C17 - registration invariant: an entry of the registry whose tableId is set
\* has its restaurantId set as well.
C17_TableImpliesRestaurant ==
    \A i \in Sockets :
        clients[i].tableId # Undefined => clients[i].restaurantId # Undefined

\* The registry entries other than that of socket s are what they were, and
\* no entry was added or removed.
OthersKept(s) ==
    /\ Len(clients') = Len(clients)
    /\ \A i \in Sockets : i # s => clients'[i] = clients[i]

\* C18 - handled for an open socket (the steps of OnMessage that run the two
\* register cases), register-restaurant sets the sender's restaurantId to the payload's
\* and leaves its tableId; register-table sets the sender's restaurantId and
\* tableId to the payload's; neither changes another entry, sends anything or
\* calls storage.
C18_RegisterFrame ==
    [][ /\ \A s \in Sockets, p \in RegisterRestaurantPayloads :
              (clients[s].readyState = "OPEN" /\ RegisterRestaurant(s, p)) =>
                  /\ clients'[s] = [clients[s] EXCEPT !.restaurantId = p.restaurantId]
                  /\ clients'[s].tableId = clients[s].tableId
                  /\ OthersKept(s)
                  /\ sent' = <<>> /\ storageCalls' = <<>>
                  /\ UNCHANGED <<pending, orders>>
        /\ \A s \in Sockets, p \in RegisterTablePayloads :
              (clients[s].readyState = "OPEN" /\ RegisterTable(s, p)) =>
                  /\ clients'[s] = [clients[s] EXCEPT !.restaurantId = p.restaurantId,
                                                      !.tableId = p.tableId]
                  /\ OthersKept(s)
                  /\ sent' = <<>> /\ storageCalls' = <<>>
                  /\ UNCHANGED <<pending, orders>>
      ]_vars

\* C18 witness: after a quiet step the registry holds a connection registered
\* for table 3 of restaurant 7 and a connection registered under restaurant 8
\* that kept the tableId 5 of an earlier table registration.
C18_Witness ==
    /\ sent = <<>> /\ storageCalls = <<>> /\ ~errorLogged
    /\ Len(clients) = 2
    /\ clients[1].restaurantId = "7" /\ clients[1].tableId = "3"
    /\ clients[2].restaurantId = "8" /\ clients[2].tableId = "5"
    /\ pending[1].phase = "awaiting"

\* The registry without the entry of socket s, the others in their order.
Without(s) ==
    [i \in 1..(Len(clients) - 1) |-> IF i < s THEN clients[i] ELSE clients[i + 1]]

\* C19 - the registry follows the connections: a connecting socket is
\* appended as an open entry without identity, the close event of a socket
\* removes its entry and leaves the others as they are and in their order, no
\* other step adds or removes an entry, and every send of every step (the
\* broadcast of a resumed update-order-status handler included) goes to an
\* entry of the registry whose socket is open.
C19_RegistryFollowsConnections ==
    [][ /\ Connection =>
              clients' = Append(clients, [readyState |-> "OPEN",
                                          restaurantId |-> Undefined,
                                          tableId |-> Undefined])
        /\ \A s \in Sockets : OnClose(s) => clients' = Without(s)
        /\ Len(clients') > Len(clients) => Connection
        /\ Len(clients') < Len(clients) => \E s \in Sockets : OnClose(s)
        /\ \A e \in Range(sent') :
              e.to \in Sockets /\ clients[e.to].readyState = "OPEN"
      ]_vars

\* C19 witness: a resumed update-order-status handler has just broadcast to
\* restaurant 7; of the two entries registered under 7 the first, whose
\* socket is no longer open and whose close event is still to come, got
\* nothing and the second got the envelope.
C19_Witness ==
    /\ Len(sent) = 1
    /\ sent[1].data.type = "order-status-updated"
    /\ sent[1].data.payload.restaurantId = "7"
    /\ sent[1].to = 2
    /\ Len(clients) = 2
    /\ clients[1].restaurantId = "7" /\ clients[1].readyState = "CLOSING"
    /\ clients[2].restaurantId = "7"

\* The WebSocket objects that are connecting or open.
Active(w) == {s \in ClientSockets : w[s].readyState \in {"CONNECTING", "OPEN"}}

\* C11 - no surprise reconnection: while no connect call of the application
\* is in force (before the first one, and from a disconnect call until the
\* next connect call) no reconnect timer is pending and no socket is
\* connecting or open, whatever events are delivered in between.
C11_NoSurpriseReconnect ==
    ~requested.called => (PendingTimers(timers) = {} /\ Active(ws) = {})

\* C12 - every close event with a code other than 1000, delivered while the
\* attempt count is below the maximum, schedules a retry: afterwards the
\* reconnect timer is pending and holds the identity of the socket that
\* closed, for the connectWebSocket call it makes when it fires.
C12_AbnormalCloseReconnects ==
    [][ \A s \in ClientSockets, code \in CloseCodes \ {NormalClosure} :
            (reconnectAttempts < MAX_RECONNECT_ATTEMPTS /\ SocketCloses(s, code)) =>
                /\ reconnectTimer' # Null
                /\ timers'[reconnectTimer'].pending
                /\ timers'[reconnectTimer'].restaurantId = ws[s].restaurantId
                /\ timers'[reconnectTimer'].tableId = ws[s].tableId
                /\ reconnectAttempts' = reconnectAttempts + 1
      ]_vars

\* C13 - listener isolation: when an envelope of type T is dispatched, every
\* callback registered for T is invoked with the payload, in the order of the
\* list, whichever of them throw, and no exception leaves the message handler.
C13_ListenerIsolation ==
    [][ \A s \in ClientSockets, frame \in ClientFrames, throwers \in SUBSET Callbacks :
            (frame.parses /\ frame.type \in DOMAIN listeners
             /\ MessageEvent(s, frame, throwers)) =>
                /\ Len(invoked') = Len(listeners[frame.type])
                /\ \A k \in 1..Len(invoked') :
                      invoked'[k] = [callback |-> listeners[frame.type][k],
                                     payload |-> frame.payload]
                /\ ~escaped'
      ]_vars

\* C13 witness: two different callbacks were invoked by one dispatch in which
\* a callback threw.
C13_Witness ==
    /\ Len(invoked) = 2
    /\ invoked[1].callback # invoked[2].callback
    /\ console = "Error in listener"
    /\ ~escaped

\* C14 - sendMessage: with no socket, or a socket that is not open, it returns
\* false and hands nothing to the socket; it returns true only when it handed
\* the envelope to the open socket; it always returns one of the two, and it
\* changes nothing of the connection, the reconnect state or the listeners.
C14_SendWhenNotOpen ==
    [][ \A message \in ClientMessages, throws \in BOOLEAN :
            Send(message, throws) =>
                /\ (socket = Null \/ ws[socket].readyState # "OPEN") =>
                      (returned' = "false" /\ outbox' = <<>>)
                /\ returned' = "true" =>
                      /\ socket # Null
                      /\ ws[socket].readyState = "OPEN"
                      /\ outbox' = <<JSONstringify(message)>>
                /\ returned' \in {"true", "false"}
                /\ returned' = "false" => outbox' = <<>>
                /\ ~escaped'
                /\ UNCHANGED <<socket, ws, reconnectTimer, timers, reconnectAttempts,
                               retries, listeners>>
      ]_vars

\* C14 witness: sendMessage has just returned false on a socket that is
\* closing while a reconnect timer is pending.
C14_Witness ==
    /\ returned = "false"
    /\ outbox = <<>>
    /\ socket # Null
    /\ ws[socket].readyState = "CLOSING"
    /\ PendingTimers(timers) # {}

\* The callbacks in the lists of l, all event types together.
AllCallbacks(l) == UNION {Range(l[key]) : key \in DOMAIN l}

\* C15 - teardown: when disconnectWebSocket returns the socket variable is
\* null (isConnected is false), the socket it referred to, if it was
\* connecting or open, is closing with code 1000, no reconnect timer is
\* pending, the attempt count is 0 and the list of every event type is
\* empty. A later message invokes callbacks of the lists only, and a list
\* gets a callback only by addEventListener, so that nothing registered
\* before the teardown is invoked after it.
C15_Teardown ==
    [][ /\ Disconnect =>
              /\ socket' = Null
              /\ (socket # Null /\ ws[socket].readyState \in {"CONNECTING", "OPEN"}) =>
                    /\ ws'[socket].readyState = "CLOSING"
                    /\ ws'[socket].closeCode = NormalClosure
              /\ PendingTimers(timers') = {}
              /\ reconnectAttempts' = 0
              /\ \A key \in DOMAIN listeners' : listeners'[key] = <<>>
              /\ DOMAIN listeners' = DOMAIN listeners
        /\ \A k \in 1..Len(invoked') : invoked'[k].callback \in AllCallbacks(listeners)
        /\ ~(AllCallbacks(listeners') \subseteq AllCallbacks(listeners)) =>
              \E event \in EventTypes, callback \in Callbacks :
                  AddEventListener(event, callback)
      ]_vars

\* C15 witness: after a teardown of subscribed components: no connect call
\* is in force, the socket variable is null, the socket it referred to is
\* closing with code 1000 and the event types that had callbacks have empty
\* lists.
C15_Witness ==
    /\ ~requested.called
    /\ socket = Null
    /\ \E s \in ClientSockets :
          ws[s].readyState = "CLOSING" /\ ws[s].wasOpen /\ ws[s].closeCode = NormalClosure
    /\ DOMAIN listeners = EventTypes
    /\ \A key \in DOMAIN listeners : listeners[key] = <<>>
    /\ console = ""
    /\ invoked = <<>>

\* The registration envelopes of the identity (restaurantId, tableId), in the
\* order they have to be sent.
Announcement(restaurantId, tableId) ==
    IF ~Truthy(restaurantId) THEN <<>>
    ELSE <<[type |-> "register-restaurant",
            payload |-> [NoPayload EXCEPT !.restaurantId = restaurantId]]>>
         \o (IF ~Truthy(tableId) THEN <<>>
             ELSE <<[type |-> "register-table",
                     payload |-> [NoPayload EXCEPT !.restaurantId = restaurantId,
                                                   !.tableId = tableId]]>>)

\* C20 - identity announcement: the open event of a socket created by
\* connectWebSocket(restaurantId, tableId) is the event of the current socket
\* and hands it register-restaurant{restaurantId}, then, with a tableId,
\* register-table{restaurantId, tableId} and nothing else, or nothing at all
\* without a restaurantId; no step hands an envelope to a socket that has
\* not had its open event.
C20_IdentityAnnouncement ==
    [][ /\ \A s \in ClientSockets :
              SocketOpens(s) =>
                  /\ socket = s /\ socket' = s
                  /\ outbox' = Announcement(ws[s].restaurantId, ws[s].tableId)
        /\ outbox' # <<>> =>
              /\ socket # Null
              /\ \/ ws[socket].readyState = "OPEN"
                 \/ SocketOpens(socket)
      ]_vars

\* C20 witness: the socket of connectWebSocket(7, 3) has just opened and was
\* handed the two registrations, the restaurant's first.
C20_Witness ==
    /\ console = "WebSocket connected successfully"
    /\ Len(outbox) = 2
    /\ outbox[1].type = "register-restaurant"
    /\ outbox[1].payload.restaurantId = "7"
    /\ outbox[2].type = "register-table"
    /\ outbox[2].payload.tableId = "3"
    /\ socket # Null
    /\ ws[socket].readyState = "OPEN"

\* C21 - at any time at most one socket of the page is connecting or open and
\* at most one reconnect timer is pending.
C21_SingleSocketSingleTimer ==
    /\ Cardinality(Active(ws)) <= 1
    /\ Cardinality(PendingTimers(timers)) <= 1

\* C21 witness: a socket is connecting and a reconnect timer is pending while
\* an earlier socket, closed by connectWebSocket, has not delivered its close
\* event yet.
C21_Witness ==
    /\ Cardinality(Active(ws)) = 1
    /\ Cardinality(PendingTimers(timers)) = 1
    /\ \E s \in ClientSockets : ws[s].readyState = "CLOSING"

\* C22 - a connect call of the application cancels the pending reconnect
\* timer: after the call a timer is pending only if the call itself scheduled
\* it (its new WebSocket(...) threw).
C22_ConnectClearsTimer ==
    [][ \A r \in ClientRestaurantIds, t \in ClientTableIds, throws \in BOOLEAN :
            Connect(r, t, throws) =>
                (PendingTimers(timers') # {} => retries' = retries + 1)
      ]_vars

\* The registration, new-order and call-waiter frames of the restaurants other
\* than r.
OtherRestaurantFrames(r) ==
    {f \in Frames :
        /\ f.parses /\ f.hasPayload
        /\ f.type \in {"register-restaurant", "register-table", "new-order",
                       "call-waiter"}
        /\ f.payload.restaurantId \in RestaurantIds \ {r}}

\* C23 - a storage write in progress blocks nobody else: while the handler of
\* an update-order-status message of restaurant R is suspended on its await,
\* every open connection can have a registration, new-order or call-waiter
\* message of another restaurant handled; such a relay reaches every open
\* connection of that restaurant in the same step and leaves the suspended
\* handler suspended; and as long as the write has not completed the
\* suspended handler sends no order-status-updated envelope (one that is sent
\* meanwhile is the broadcast of another handler, whose write has completed).
C23_SlowWriteDoesNotBlock ==
    /\ [](\A slot \in Slots, s \in Sockets :
            (pending[slot].phase = "awaiting" /\ clients[s].readyState = "OPEN") =>
                \A f \in OtherRestaurantFrames(pending[slot].payload.restaurantId) :
                    ENABLED OnMessage(s, f))
    /\ [][ \A slot \in Slots :
              pending[slot].phase = "awaiting" =>
                  /\ \A e \in Range(sent') :
                        e.data.type = "order-status-updated" =>
                            \E k \in Slots \ {slot} :
                                /\ pending[k].phase = "resolved"
                                /\ pending'[k] = NoHandler
                                /\ pending'[slot] = pending[slot]
                                /\ e.data.payload = pending[k].payload
                  /\ \A s \in Sockets,
                        f \in OtherRestaurantFrames(pending[slot].payload.restaurantId) :
                        (f.type \in {"new-order", "call-waiter"} /\ OnMessage(s, f)) =>
                            /\ pending' = pending
                            /\ \A i \in Sockets :
                                  (clients[i].restaurantId = f.payload.restaurantId
                                   /\ clients[i].readyState = "OPEN")
                                      => \E e \in Range(sent') : e.to = i
         ]_vars

\* C23 witness: a waiter call of restaurant 8 has just been relayed to a
\* connection of restaurant 8 while the handler of a status update of
\* restaurant 7 is suspended on its storage write.
C23_Witness ==
    /\ pending[1].phase = "awaiting"
    /\ pending[1].payload.restaurantId = "7"
    /\ sent # <<>>
    /\ sent[1].data.type = "waiter-requested"
    /\ clients[sent[1].to].restaurantId = "8"

\* C24 - new-order only relays: handling a new-order message with
\* restaurantId R calls storage not at all, changes no registry entry, no
\* order and no suspended handler, and sends the envelope new-order-received
\* with the order of the inbound payload exactly once to every open connection
\* registered under R, and nothing to any other connection.
C24_NewOrderOnlyRelays ==
    [][ \A s \in Sockets, p \in NewOrders :
            (p.restaurantId \in RestaurantIds /\ clients[s].readyState = "OPEN"
             /\ NewOrder(p)) =>
                /\ storageCalls' = <<>>
                /\ UNCHANGED <<clients, orders, pending>>
                /\ \A i \in Sockets :
                      SendsTo(sent', i, [type |-> "new-order-received",
                                         payload |-> p.order])
                        = IF clients[i].restaurantId = p.restaurantId
                             /\ clients[i].readyState = "OPEN"
                          THEN 1 ELSE 0
                /\ \A e \in Range(sent') :
                      e.data = [type |-> "new-order-received", payload |-> p.order]
      ]_vars

\* C24 witness: order 42 has just been relayed to the one connection of its
\* restaurant while a connection of another restaurant is open and got
\* nothing.
C24_Witness ==
    /\ Len(sent) = 1
    /\ sent[1].data.type = "new-order-received"
    /\ sent[1].data.payload = "42"
    /\ storageCalls = <<>>
    /\ Len(clients) = 2
    /\ \A i \in Sockets : clients[i].readyState = "OPEN"
    /\ \E i \in Sockets :
          clients[i].restaurantId \in RestaurantIds \ {clients[sent[1].to].restaurantId}

\* The list of event type T in the registry l: empty when T has no list.
ListOf(l, T) == IF T \in DOMAIN l THEN l[T] ELSE <<>>

\* C25 - dispatch follows the listener list: an inbound envelope of type T
\* invokes the callbacks that are in T's list when it arrives, in the order of
\* the list and once per entry (twice for a callback that is in it twice),
\* each with the envelope's payload; the callbacks of other types are not
\* invoked, and the lists are left as they are.
C25_DispatchFollowsList ==
    [][ \A s \in ClientSockets, frame \in ClientFrames, throwers \in SUBSET Callbacks :
            (frame.parses /\ MessageEvent(s, frame, throwers)) =>
                /\ invoked' = [k \in 1..Len(ListOf(listeners, frame.type)) |->
                                  [callback |-> ListOf(listeners, frame.type)[k],
                                   payload |-> frame.payload]]
                /\ listeners' = listeners
      ]_vars

\* C25 witness: one dispatch has just invoked f twice, for its two entries in
\* the list of the envelope's type, while g, registered for the other type,
\* was not invoked.
C25_Witness ==
    /\ Len(invoked) = 2
    /\ invoked[1].callback = "f" /\ invoked[2].callback = "f"
    /\ \E T \in DOMAIN listeners : listeners[T] = <<"f", "f">>
    /\ \E T \in DOMAIN listeners : listeners[T] = <<"g">>

\* The positions of list that hold a callback other than cb.
KeptPositions(list, cb) == {k \in 1..Len(list) : list[k] # cb}

\* C26 - removeEventListener(T, cb) removes by identity: afterwards T's list
\* is what it was without the entries that are cb (all of them), the other
\* entries in their order; the lists of the other types and the set of types
\* that have a list are unchanged; with cb not in T's list, or T without a
\* list, nothing changes; no error is raised and nothing outside the registry
\* is touched.
C26_RemoveByIdentity ==
    [][ \A event \in EventTypes, callback \in Callbacks :
            RemoveEventListener(event, callback) =>
                /\ DOMAIN listeners' = DOMAIN listeners
                /\ \A key \in DOMAIN listeners : key # event => listeners'[key] = listeners[key]
                /\ event \in DOMAIN listeners =>
                      LET list == listeners[event]
                          kept == KeptPositions(list, callback)
                      IN /\ callback \notin Range(listeners'[event])
                         /\ Len(listeners'[event]) = Cardinality(kept)
                         /\ \A k \in kept :
                               listeners'[event][Cardinality({j \in kept : j <= k})] = list[k]
                /\ callback \notin Range(ListOf(listeners, event)) => listeners' = listeners
                /\ ~escaped'
                /\ invoked' = <<>>
                /\ UNCHANGED <<socket, ws, reconnectTimer, timers, reconnectAttempts>>
      ]_vars

\* C26 witness: the registry after f, registered twice for order-status-updated
\* around g, was removed from it: g is left there, and the list of
\* waiter-requested still holds the f registered for it.
C26_Witness ==
    /\ DOMAIN listeners = EventTypes
    /\ listeners["order-status-updated"] = <<"g">>
    /\ listeners["waiter-requested"] = <<"f">>
    /\ invoked = <<>>

\* C27 - client protocol errors are dropped: a frame that does not parse, or
\* an envelope whose type has no callback in the registry, invokes no
\* callback, lets no exception leave the message handler, sends nothing and
\* leaves the socket, the reconnect state and the registry as they are.
C27_ProtocolErrorsDropped ==
    [][ \A s \in ClientSockets, frame \in ClientFrames, throwers \in SUBSET Callbacks :
            (/\ ~frame.parses \/ ListOf(listeners, frame.type) = <<>>
             /\ MessageEvent(s, frame, throwers)) =>
                /\ invoked' = <<>>
                /\ ~escaped'
                /\ outbox' = <<>>
                /\ UNCHANGED <<socket, ws, reconnectTimer, timers, reconnectAttempts,
                               retries, listeners>>
      ]_vars

\* C27 witness: a frame that does not parse was just dropped on the open
\* socket of a page that has a callback registered: the failure is logged,
\* nothing was invoked and nothing left the handler.
C27_Witness ==
    /\ console = "Error parsing WebSocket message"
    /\ invoked = <<>>
    /\ ~escaped
    /\ socket # Null /\ ws[socket].readyState = "OPEN"
    /\ AllCallbacks(listeners) # {}

\* C28 - the reconnect delay: the step that schedules the retry of attempt n
\* (n from 1 to 10) creates a pending timer with delay min(3000 * n, 30000)
\* milliseconds; the delay is at most 30 seconds, and it is not less than the
\* delay of the attempt before it, which the timer variable still refers to.
C28_ReconnectDelay ==
    [][ retries' = retries + 1 =>
            /\ reconnectAttempts' = reconnectAttempts + 1
            /\ reconnectAttempts' \in 1..10
            /\ reconnectTimer' # Null
            /\ timers'[reconnectTimer'].pending
            /\ timers'[reconnectTimer'].delay =
                  (IF 3000 * reconnectAttempts' < 30000
                   THEN 3000 * reconnectAttempts' ELSE 30000)
            /\ timers'[reconnectTimer'].delay <= 30000
            /\ (reconnectAttempts >= 1 /\ reconnectTimer # Null) =>
                  /\ timers[reconnectTimer].delay = 3000 * reconnectAttempts
                  /\ timers[reconnectTimer].delay <= timers'[reconnectTimer'].delay
      ]_vars

\* C28 witness: the retry of attempt 10 is pending with the delay of 30
\* seconds.
C28_Witness ==
    /\ reconnectAttempts = 10
    /\ reconnectTimer # Null
    /\ timers[reconnectTimer].pending
    /\ timers[reconnectTimer].delay = 30000
    /\ console = "Scheduling reconnection attempt"

\* C29 - the identity of the last connect call: a connection that opens was
\* created with the restaurantId and tableId of the application's most recent
\* connectWebSocket call, and announces that identity; no close event or
\* timer of an earlier socket makes a connection open under the identity of
\* an earlier call, or after disconnectWebSocket.
C29_IdentityOfLastConnect ==
    [][ \A s \in ClientSockets :
            SocketOpens(s) =>
                /\ requested.called
                /\ ws[s].restaurantId = requested.restaurantId
                /\ ws[s].tableId = requested.tableId
                /\ outbox' = Announcement(requested.restaurantId, requested.tableId)
      ]_vars

\* The statuses the order-status-updated envelopes of a send log carry for
\* the order o.
BroadcastStatuses(log, o) ==
    {log[k].data.payload.status :
        k \in {j \in 1..Len(log) : /\ log[j].data.type = "order-status-updated"
                                    /\ log[j].data.payload.orderId = o}}

\* C30 - status broadcasts agree with storage under interleaving: when the
\* last of the handlers in flight finishes and broadcasts order-status-updated
\* for the order its statement updated (the last such envelope once all
\* handlers have finished), the status it carries is the status persisted for
\* that order.
C30_BroadcastAgreesWithStorage ==
    [][ \A slot \in DOMAIN pending :
            (/\ Resume(slot)
             /\ pending[slot].result \in DOMAIN orders
             /\ \A k \in DOMAIN pending : pending'[k].phase = "none") =>
                \A st \in BroadcastStatuses(sent', pending[slot].result) :
                    st = orders'[pending[slot].result]
      ]_vars

====
